---- MODULE Spec2Model ----
(***************************************************************************)
(* Model of the three biodumpy downloaders:                                *)
(*   COL._download          (src/biodumpy/inputs/COL.py)                   *)
(*   INaturalist._download  (src/biodumpy/inputs/INaturalist.py)           *)
(*   NCBI.download / download_ids / download_seq                           *)
(*                          (src/biodumpy/inputs/NCBI.py)                  *)
(* A behaviour of Spec is one call of one of the three downloaders: Init    *)
(* starts one of them and leaves the variables of the other two idle.      *)
(*                                                                         *)
(* Python's None is the empty tuple and a present value v is <<v>>, so an  *)
(* optional field is always a sequence of length 0 or 1.                   *)
(***************************************************************************)
EXTENDS Integers, Sequences, FiniteSets, TLC

None == <<>>
Some(v) == <<v>>
IsNone(o) == o = <<>>
Val(o) == o[1]

\* Sequences over S of length 0..n.
SeqUpTo(S, n) == UNION {[1..k -> S] : k \in 0..n}

\* Python's [x for x in s if Keep(x)] is SelectSeq(s, Keep).

(***************************************************************************)
(* -------------------------------- State -------------------------------- *)
(***************************************************************************)

\* COL._download
VARIABLES
    col_pc,         \* "idle", "start", "prompt" (blocked in input()), "done"
    col_query,      \* query
    check_syn,      \* self.check_syn
    col_response,   \* response of requests.get (None before the request)
    col_result,     \* result: the candidates still considered
    id_input,       \* the operator's answer (None while not asked)
    col_payload,    \* the returned list (None while not returned)
    col_raised,     \* TRUE when _download ended by an exception
    col_prompts,    \* number of calls of input()
    col_requests,   \* number of HTTP requests issued
    col_errors      \* number of logging.error calls

colVars == <<col_pc, col_query, check_syn, col_response, col_result, id_input,
             col_payload, col_raised, col_prompts, col_requests, col_errors>>

\* INaturalist._download
VARIABLES
    inat_pc,          \* "idle", "start", "fallback" (before the second request), "done"
    inat_query,       \* query
    inat_status,      \* response.status_code of the primary search (None: no response obtained)
    inat_results,     \* results of the primary search
    results_filtered, \* the selected taxon (None when no result matches)
    detail_status,    \* response_id.status_code (None: no response obtained)
    taxon_photos,     \* photo_id: the selected taxon's occurrence photos
    inat_payload,     \* the returned list (None while not returned)
    inat_raised,      \* TRUE when _download ended by an exception
    inat_requests     \* number of HTTP requests issued

inatVars == <<inat_pc, inat_query, inat_status, inat_results, results_filtered,
              detail_status, taxon_photos, inat_payload, inat_raised, inat_requests>>

\* NCBI.download, download_ids, download_seq
VARIABLES
    ncbi_pc,        \* "idle", "count", "pages", "ids_return", "batches", "fetch", "seq_return", "done"
    seq_len,        \* provider: the Length of each id's summary
    total_ids,      \* download_ids: total_ids
    start,          \* download_ids: start of the next page
    id_bp_list,     \* download_ids: the set id_bp_list
    summarised,     \* ids met in summaries during download_ids
    ids_aborted,    \* download_ids: the loop ended by break
    id_repeated,    \* download_ids: some id was summarised more than once
    ids_list,       \* download: list(ids_list)
    batches,        \* download: the batches still to fetch
    attempt,        \* download_seq: attempt
    outcomes,       \* download_seq: what each efetch of this call did
    seq_result,     \* download_seq: the returned value (None: returned None)
    failed_logged,  \* download_seq: the 'Failed to download' error was logged in this call
    batch_log,      \* download: per finished download_seq call, what it returned
    ncbi_payload,   \* download: payload
    ncbi_returned,  \* download returned payload
    ncbi_raised     \* download ended by an exception

ncbiVars == <<ncbi_pc, seq_len, total_ids, start, id_bp_list, summarised, ids_aborted, id_repeated,
              ids_list, batches, attempt, outcomes, seq_result, failed_logged, batch_log,
              ncbi_payload, ncbi_returned, ncbi_raised>>

vars == <<colVars, inatVars, ncbiVars>>

(***************************************************************************)
(* ------------------------------ COL ------------------------------------ *)
(***************************************************************************)

\* Largest number of candidates in a search response, and longest lineage.
MaxCand == 2
MaxClass == 1

ColQueries == {"Bufo roseus"}

\* COL.ACCEPTED_TERMS
ACCEPTED_TERMS == {"accepted", "provisionally accepted"}

Statuses == {"accepted", "provisionally accepted", "synonym"}

\* The provider's name-usage ids: the i-th candidate of a response has the
\* i-th id (ids are the provider's primary key, so they are distinct).
IdNames == <<"c1", "c2", "c3", "c4">>
CandId(i) == IdNames[i]

\* The id every candidate's nested usage carries, and the ids of lineage entries.
UsageIds == {"u1"}
EntryIds == {"u1", "p1"}

Usages == {None} \cup {Some([id |-> Some(u), status |-> Some(s)]) : u \in UsageIds, s \in Statuses}
Entries == [id : EntryIds]
Classifications == {None} \cup {Some(c) : c \in SeqUpTo(Entries, MaxClass)}

\* What the provider says of one candidate besides its id.
CandBodies == [usage : Usages, classification : Classifications]

\* The result list of a search response: N candidates with ids c1..cN.
ResultList(body) ==
    [i \in DOMAIN body |-> [id |-> Some(CandId(i)), usage |-> body[i].usage,
                            classification |-> body[i].classification]]

\* A response: its status code and what response.json() gives (None: the body
\* is not a search payload, so reading it raises).
OkResponse(result) ==
    [status_code |-> 200, json |-> Some([empty |-> (result = <<>>), result |-> result])]
ErrorResponse == [status_code |-> 500, json |-> None]

\* What the operator can type at the prompt: a listed id, "Skip", or anything else.
ColAnswers(result) ==
    {Val(result[i].id) : i \in 1..Len(result)} \cup {"Skip", "skip"}

NullNomenclature(query) ==
    [origin_taxon |-> query, taxon_id |-> None, status |-> None, usage |-> None,
     classification |-> None]

\* Mutant of NeedsPrompt: the operator is asked for a single candidate too.
NeedsPromptForOne(result) == Len(result) >= 1

\* COL.py line 74
NeedsPrompt(result) == Len(result) > 1

\* COL.py line 80
SkipResult == <<[id |-> None, usage |-> None, classification |-> None]>>

\* Mutant of SelectById: the candidates are not narrowed to the answer.
SelectByIdUnfiltered(result, answer) == result

\* COL.py line 82
SelectById(result, answer) ==
    LET Keep(item) == item.id = Some(answer) IN SelectSeq(result, Keep)

\* COL.py lines 79-82
Resolve(result, answer) ==
    IF answer = "Skip" THEN SkipResult ELSE SelectById(result, answer)

\* COL.py line 86
StatusOf(usage) == IF IsNone(usage) THEN None ELSE Val(usage).status

\* COL.py line 89
FilterApplies(syn, status) ==
    syn /\ (IsNone(status) \/ Val(status) \notin ACCEPTED_TERMS)

\* COL.py lines 90-91
StripSynonym(usage, classification) ==
    LET synonym_id == IF IsNone(usage) THEN None ELSE Val(usage).id
        Keep(item) == Some(item.id) # synonym_id
    IN  IF IsNone(classification) \/ Val(classification) = <<>> THEN None
        ELSE Some(SelectSeq(Val(classification), Keep))

\* COL.py lines 84-93, for a non-empty result
BuildRecord(query, syn, result) ==
    LET usage == result[1].usage
        status == StatusOf(usage)
        classification == result[1].classification
    IN  [origin_taxon |-> query, taxon_id |-> result[1].id, status |-> status,
         usage |-> usage,
         classification |-> IF FilterApplies(syn, status)
                            THEN StripSynonym(usage, classification)
                            ELSE classification]

\* COL.py lines 84-95: result[0] of an empty list raises IndexError.
Finish(result) ==
    IF result = <<>>
    THEN /\ col_raised' = TRUE
         /\ col_payload' = None
    ELSE /\ col_raised' = FALSE
         /\ col_payload' = Some(<<BuildRecord(col_query, check_syn, result)>>)

\* The state when _download is entered.
ColInit ==
    /\ col_pc = "start"
    /\ col_query \in ColQueries
    /\ check_syn \in BOOLEAN
    /\ col_response = None
    /\ col_result = <<>>
    /\ id_input = None
    /\ col_payload = None
    /\ col_raised = FALSE
    /\ col_prompts = 0
    /\ col_requests = 0
    /\ col_errors = 0

\* No COL download in this run.
ColIdle ==
    /\ col_pc = "idle"
    /\ col_query = ""
    /\ check_syn = FALSE
    /\ col_response = None
    /\ col_result = <<>>
    /\ id_input = None
    /\ col_payload = None
    /\ col_raised = FALSE
    /\ col_prompts = 0
    /\ col_requests = 0
    /\ col_errors = 0

\* COL.py lines 54-77 (and to line 95 when no prompt is needed), for one response.
Request(response) ==
    /\ col_response' = Some(response)
    /\ col_requests' = col_requests + 1
    /\ col_errors' = IF response.status_code # 200 THEN col_errors + 1 ELSE col_errors
    /\ IF IsNone(response.json)
       THEN /\ col_raised' = TRUE
            /\ col_pc' = "done"
            /\ UNCHANGED <<col_result, col_payload, col_prompts>>
       ELSE IF Val(response.json).empty
       THEN /\ col_payload' = Some(<<NullNomenclature(col_query)>>)
            /\ col_pc' = "done"
            /\ UNCHANGED <<col_result, col_raised, col_prompts>>
       ELSE IF NeedsPrompt(Val(response.json).result)
       THEN /\ col_result' = Val(response.json).result
            /\ col_prompts' = col_prompts + 1
            /\ col_pc' = "prompt"
            /\ UNCHANGED <<col_payload, col_raised>>
       ELSE /\ col_result' = Val(response.json).result
            /\ Finish(Val(response.json).result)
            /\ col_pc' = "done"
            /\ UNCHANGED col_prompts
    /\ UNCHANGED <<col_query, check_syn, id_input>>

ColRequest ==
    /\ col_pc = "start"
    /\ \/ \E n \in 0..MaxCand : \E body \in [1..n -> CandBodies] :
             Request(OkResponse(ResultList(body)))
       \/ Request(ErrorResponse)
    /\ UNCHANGED <<inatVars, ncbiVars>>

\* COL.py lines 77-95: input() returns the operator's answer.
ColAnswer ==
    /\ col_pc = "prompt"
    /\ \E answer \in ColAnswers(col_result) :
        /\ id_input' = Some(answer)
        /\ col_result' = Resolve(col_result, answer)
        /\ Finish(Resolve(col_result, answer))
    /\ col_pc' = "done"
    /\ UNCHANGED <<col_query, check_syn, col_response, col_prompts, col_requests, col_errors>>
    /\ UNCHANGED <<inatVars, ncbiVars>>

(***************************************************************************)
(* --------------------------- INaturalist ------------------------------- *)
(***************************************************************************)

\* Largest number of taxa in a search response and of photos of a taxon.
MaxResults == 2
MaxPhotos == 2

InatQueries == {"Hyla meridionalis"}

\* INaturalist.py line 69
photo_license == {"cc0", "cc-by", "cc-by-nc", "cc-by-nc-nd", "cc-by-sa", "cc-by-nd", "cc-by-nc-sa"}

\* License codes the provider attaches to photos: none, allow-listed ones, and
\* one that is not on the allow-list.
ProviderLicenses == {None, Some("cc-by"), Some("gfdl")}

\* A photo URL is the sequence of its "/"-separated segments.
PhotoUrls == {<<"https:", "", "static.inaturalist.org", "photos", "101", "square.jpg">>,
              <<"https:", "", "inaturalist-open-data.s3.amazonaws.com", "photos", "square", "original.jpeg">>}

Photos == [license_code : ProviderLicenses, url : PhotoUrls, attribution : {"(c) someone"}]

TaxonNames == InatQueries \cup {"Hyla"}

\* Taxa of a search response: the i-th has id i.
TaxonBodies == [name : TaxonNames, default_photo : {None} \cup {Some(ph) : ph \in Photos}]
TaxaList(body) ==
    [i \in DOMAIN body |-> [id |-> i, name |-> body[i].name,
                            default_photo |-> body[i].default_photo]]

\* INaturalist.py line 66
photo_details_empty(query) ==
    [taxon |-> query, image_id |-> None, license_code |-> None, attribution |-> None]

\* str.replace("square", "medium") on one path segment.
ReplaceSquare(segment) ==
    CASE segment = "square" -> "medium"
      [] segment = "square.jpg" -> "medium.jpg"
      [] OTHER -> segment

\* INaturalist.py lines 94-95, 98 and 108-109, 112: the last two segments, rewritten.
ImageId(url) ==
    <<ReplaceSquare(url[Len(url) - 1]), ReplaceSquare(url[Len(url)])>>

\* INaturalist.py lines 96-101 and 110-115
PhotoRecord(query, photo) ==
    [taxon |-> query, image_id |-> Some(ImageId(photo.url)),
     license_code |-> photo.license_code, attribution |-> Some(photo.attribution)]

\* Mutant of FirstMatch: the first result is taken whatever its name.
FirstMatchAnyName(results, query) ==
    IF results = <<>> THEN None ELSE Some(Head(results))

\* INaturalist.py line 73: the first result whose name is the query.
FirstMatch(results, query) ==
    LET Named(x) == x.name = query
        hits == SelectSeq(results, Named)
    IN  IF hits = <<>> THEN None ELSE Some(Head(hits))

\* INaturalist.py lines 78-81
DefaultPhoto(taxon) ==
    IF taxon.default_photo # None
    THEN IF Val(taxon.default_photo).license_code # None THEN taxon.default_photo ELSE None
    ELSE None

\* INaturalist.py line 91: the test of the fallback scan.
LicenseAllowed(license_code) ==
    license_code # None /\ Val(license_code) \in photo_license

\* INaturalist.py line 91: the first occurrence photo with an allowed license.
FirstLicensed(photos) ==
    LET Allowed(ph) == LicenseAllowed(ph.license_code)
        hits == SelectSeq(photos, Allowed)
    IN  IF hits = <<>> THEN None ELSE Some(Head(hits))

InatInit ==
    /\ inat_pc = "start"
    /\ inat_query \in InatQueries
    /\ inat_status = None
    /\ inat_results = <<>>
    /\ results_filtered = None
    /\ detail_status = None
    /\ taxon_photos = <<>>
    /\ inat_payload = None
    /\ inat_raised = FALSE
    /\ inat_requests = 0

InatIdle ==
    /\ inat_pc = "idle"
    /\ inat_query = ""
    /\ inat_status = None
    /\ inat_results = <<>>
    /\ results_filtered = None
    /\ detail_status = None
    /\ taxon_photos = <<>>
    /\ inat_payload = None
    /\ inat_raised = FALSE
    /\ inat_requests = 0

\* INaturalist.py line 60: requests.get raises (no connection).
InatSearchUnreachable ==
    /\ inat_pc = "start"
    /\ inat_status' = None
    /\ inat_requests' = inat_requests + 1
    /\ inat_raised' = TRUE
    /\ inat_pc' = "done"
    /\ UNCHANGED <<inat_query, inat_results, results_filtered, detail_status,
                   taxon_photos, inat_payload>>
    /\ UNCHANGED <<colVars, ncbiVars>>

\* INaturalist.py lines 60-63: a status other than 200 raises BiodumpyException.
InatSearchRefused ==
    /\ inat_pc = "start"
    /\ \E code \in {404, 500} : inat_status' = Some(code)
    /\ inat_requests' = inat_requests + 1
    /\ inat_raised' = TRUE
    /\ inat_pc' = "done"
    /\ UNCHANGED <<inat_query, inat_results, results_filtered, detail_status,
                   taxon_photos, inat_payload>>
    /\ UNCHANGED <<colVars, ncbiVars>>

\* INaturalist.py lines 60-84 and 107-123: the primary search answers 200.
InatSearch ==
    /\ inat_pc = "start"
    /\ \E n \in 0..MaxResults : \E body \in [1..n -> TaxonBodies] :
        LET results == TaxaList(body)
            selected == FirstMatch(results, inat_query)
        IN  /\ inat_results' = results
            /\ results_filtered' = selected
            /\ IF selected = None
               THEN /\ inat_payload' = Some(<<photo_details_empty(inat_query)>>)
                    /\ inat_pc' = "done"
               ELSE IF DefaultPhoto(Val(selected)) = None
               THEN /\ inat_payload' = None
                    /\ inat_pc' = "fallback"
               ELSE /\ inat_payload' = Some(<<PhotoRecord(inat_query, Val(DefaultPhoto(Val(selected))))>>)
                    /\ inat_pc' = "done"
    /\ inat_status' = Some(200)
    /\ inat_requests' = inat_requests + 1
    /\ UNCHANGED <<inat_query, detail_status, taxon_photos, inat_raised>>
    /\ UNCHANGED <<colVars, ncbiVars>>

\* INaturalist.py line 85: the second requests.get raises (no connection);
\* nothing catches it.
InatDetailUnreachable ==
    /\ inat_pc = "fallback"
    /\ detail_status' = None
    /\ inat_requests' = inat_requests + 1
    /\ inat_raised' = TRUE
    /\ inat_pc' = "done"
    /\ UNCHANGED <<inat_query, inat_status, inat_results, results_filtered,
                   taxon_photos, inat_payload>>
    /\ UNCHANGED <<colVars, ncbiVars>>

\* INaturalist.py lines 85-87, 105-106, 123: the detail lookup answers another status.
InatDetailRefused ==
    /\ inat_pc = "fallback"
    /\ \E code \in {404, 500} : detail_status' = Some(code)
    /\ inat_requests' = inat_requests + 1
    /\ inat_payload' = Some(<<photo_details_empty(inat_query)>>)
    /\ inat_pc' = "done"
    /\ UNCHANGED <<inat_query, inat_status, inat_results, results_filtered,
                   taxon_photos, inat_raised>>
    /\ UNCHANGED <<colVars, ncbiVars>>

\* INaturalist.py lines 85-103, 123: the detail lookup answers 200.
InatDetail ==
    /\ inat_pc = "fallback"
    /\ \E photos \in SeqUpTo(Photos, MaxPhotos) :
        /\ taxon_photos' = photos
        /\ inat_payload' =
              IF FirstLicensed(photos) = None
              THEN Some(<<photo_details_empty(inat_query)>>)
              ELSE Some(<<PhotoRecord(inat_query, Val(FirstLicensed(photos)))>>)
    /\ detail_status' = Some(200)
    /\ inat_requests' = inat_requests + 1
    /\ inat_pc' = "done"
    /\ UNCHANGED <<inat_query, inat_status, inat_results, results_filtered, inat_raised>>
    /\ UNCHANGED <<colVars, ncbiVars>>

(***************************************************************************)
(* ------------------------------- NCBI ---------------------------------- *)
(***************************************************************************)

\* Number of sequence ids the provider knows, largest Count it reports, and
\* the batch size the downloader is configured with (self.step).
MaxIds == 3
MaxCount == 4
step == 2

\* NCBI.__init__ default max_bp, and download_seq default retries
max_bp == 5000
retries == 3

SeqIds == 1..MaxIds

\* Sequence lengths the provider reports in summaries.
SeqLengths == {max_bp, max_bp + 1}

\* What one efetch attempt can do.
FetchOutcomes == {"ok", "IncompleteRead", "Exception"}

\* Mutant of LengthOk: the bound is off by one.
LengthOkOffByOne(bp) == bp <= max_bp + 1

\* NCBI.py line 83: the length test of the filter.
LengthOk(bp) == bp <= max_bp

\* NCBI.py lines 81-84: the summaries of ids, in order, folded into the set.
RECURSIVE AddSummaries(_, _, _)
AddSummaries(kept, ids, len) ==
    IF ids = <<>> THEN kept
    ELSE AddSummaries(
            IF LengthOk(len[Head(ids)]) /\ Head(ids) \notin kept
            THEN kept \cup {Head(ids)} ELSE kept,
            Tail(ids), len)

\* Some id of ids was already summarised, or occurs twice in ids.
Repeats(seen, ids) ==
    \/ \E i \in 1..Len(ids) : ids[i] \in seen
    \/ \E i, j \in 1..Len(ids) : i # j /\ ids[i] = ids[j]

\* Mutant of LoopContinues: one attempt too many.
LoopContinuesOffByOne(a) == a <= retries

\* NCBI.py line 109: the loop test of download_seq.
LoopContinues(a) == a < retries

\* biodumpy.utils.split_to_batches: consecutive chunks of at most n elements.
RECURSIVE split_to_batches(_, _)
split_to_batches(list, n) ==
    IF list = <<>> THEN <<>>
    ELSE IF Len(list) <= n THEN <<list>>
    ELSE <<SubSeq(list, 1, n)>> \o split_to_batches(SubSeq(list, n + 1, Len(list)), n)

\* list(ids_list): the elements of a set in some order.
Orderings(S) ==
    {f \in [1..Cardinality(S) -> S] : \A i, j \in 1..Cardinality(S) : f[i] = f[j] => i = j}

RECURSIVE Flatten(_)
Flatten(ss) == IF ss = <<>> THEN <<>> ELSE Head(ss) \o Flatten(Tail(ss))

NcbiInit ==
    /\ ncbi_pc = "count"
    /\ seq_len \in [SeqIds -> SeqLengths]
    /\ total_ids = 0
    /\ start = 0
    /\ id_bp_list = {}
    /\ summarised = {}
    /\ ids_aborted = FALSE
    /\ id_repeated = FALSE
    /\ ids_list = <<>>
    /\ batches = <<>>
    /\ attempt = 0
    /\ outcomes = <<>>
    /\ seq_result = None
    /\ failed_logged = FALSE
    /\ batch_log = <<>>
    /\ ncbi_payload = <<>>
    /\ ncbi_returned = FALSE
    /\ ncbi_raised = FALSE

NcbiIdle ==
    /\ ncbi_pc = "idle"
    /\ seq_len = [i \in SeqIds |-> max_bp]
    /\ total_ids = 0
    /\ start = 0
    /\ id_bp_list = {}
    /\ summarised = {}
    /\ ids_aborted = FALSE
    /\ id_repeated = FALSE
    /\ ids_list = <<>>
    /\ batches = <<>>
    /\ attempt = 0
    /\ outcomes = <<>>
    /\ seq_result = None
    /\ failed_logged = FALSE
    /\ batch_log = <<>>
    /\ ncbi_payload = <<>>
    /\ ncbi_returned = FALSE
    /\ ncbi_raised = FALSE

\* NCBI.py lines 63-68: the zero-result search that learns the count.
NcbiCount ==
    /\ ncbi_pc = "count"
    /\ \E count \in 0..MaxCount : total_ids' = count
    /\ ncbi_pc' = "pages"
    /\ UNCHANGED <<ids_list, seq_len, start, id_bp_list, summarised, ids_aborted, id_repeated, batches, attempt,
                   outcomes, seq_result, failed_logged, batch_log, ncbi_payload,
                   ncbi_returned, ncbi_raised>>
    /\ UNCHANGED <<colVars, inatVars>>

\* NCBI.py lines 63-65: the first search raises; nothing in download catches it.
NcbiCountFails ==
    /\ ncbi_pc = "count"
    /\ ncbi_raised' = TRUE
    /\ ncbi_pc' = "done"
    /\ UNCHANGED <<ids_list, seq_len, total_ids, start, id_bp_list, summarised, ids_aborted, id_repeated, batches,
                   attempt, outcomes, seq_result, failed_logged, batch_log, ncbi_payload,
                   ncbi_returned>>
    /\ UNCHANGED <<colVars, inatVars>>

\* NCBI.py lines 70-86: one page, its search and its summaries, without exception.
NcbiPage ==
    /\ ncbi_pc = "pages"
    /\ start < total_ids
    /\ \E IdList \in SeqUpTo(SeqIds, step) :
        /\ id_bp_list' = AddSummaries(id_bp_list, IdList, seq_len)
        /\ summarised' = summarised \cup {IdList[i] : i \in 1..Len(IdList)}
        /\ id_repeated' = (id_repeated \/ Repeats(summarised, IdList))
    /\ start' = start + step
    /\ UNCHANGED <<ncbi_pc, ids_list, seq_len, total_ids, ids_aborted, batches, attempt, outcomes,
                   seq_result, failed_logged, batch_log, ncbi_payload, ncbi_returned,
                   ncbi_raised>>
    /\ UNCHANGED <<colVars, inatVars>>

\* NCBI.py lines 70-89: a page on which an exception is raised, in the search,
\* in the summary request or while the summaries are read (after `done` of
\* them were handled); the loop breaks.
NcbiPageFails ==
    /\ ncbi_pc = "pages"
    /\ start < total_ids
    /\ \E IdList \in SeqUpTo(SeqIds, step) : \E done \in 0..Len(IdList) :
        /\ id_bp_list' = AddSummaries(id_bp_list, SubSeq(IdList, 1, done), seq_len)
        /\ summarised' = summarised \cup {IdList[i] : i \in 1..done}
        /\ id_repeated' = (id_repeated \/ Repeats(summarised, SubSeq(IdList, 1, done)))
    /\ ids_aborted' = TRUE
    /\ ncbi_pc' = "ids_return"
    /\ UNCHANGED <<ids_list, seq_len, total_ids, start, batches, attempt, outcomes, seq_result,
                   failed_logged, batch_log, ncbi_payload, ncbi_returned, ncbi_raised>>
    /\ UNCHANGED <<colVars, inatVars>>

\* NCBI.py lines 70, 91: range() is exhausted; download_ids returns id_bp_list.
NcbiPagesDone ==
    /\ ncbi_pc = "pages"
    /\ start >= total_ids
    /\ ncbi_pc' = "ids_return"
    /\ UNCHANGED <<ids_list, seq_len, total_ids, start, id_bp_list, summarised, ids_aborted, id_repeated, batches,
                   attempt, outcomes, seq_result, failed_logged, batch_log, ncbi_payload,
                   ncbi_returned, ncbi_raised>>
    /\ UNCHANGED <<colVars, inatVars>>

\* NCBI.py lines 36-40: download takes the set, lists it and splits the list.
\* The locals of download_ids are gone.
NcbiSplit ==
    /\ ncbi_pc = "ids_return"
    /\ \E order \in Orderings(id_bp_list) :
        /\ ids_list' = order
        /\ batches' = split_to_batches(order, step)
    /\ total_ids' = 0
    /\ start' = 0
    /\ summarised' = {}
    /\ ids_aborted' = FALSE
    /\ id_repeated' = FALSE
    /\ ncbi_pc' = "batches"
    /\ UNCHANGED <<seq_len, id_bp_list, attempt, outcomes, seq_result, failed_logged,
                   batch_log, ncbi_payload, ncbi_returned, ncbi_raised>>
    /\ UNCHANGED <<colVars, inatVars>>

\* NCBI.py lines 40-41, 108: the next batch enters download_seq.
NcbiNextBatch ==
    /\ ncbi_pc = "batches"
    /\ batches # <<>>
    /\ attempt' = 0
    /\ outcomes' = <<>>
    /\ seq_result' = None
    /\ failed_logged' = FALSE
    /\ ncbi_pc' = "fetch"
    /\ UNCHANGED <<ids_list, seq_len, total_ids, start, id_bp_list, summarised, ids_aborted, id_repeated, batches,
                   batch_log, ncbi_payload, ncbi_returned, ncbi_raised>>
    /\ UNCHANGED <<colVars, inatVars>>

\* NCBI.py lines 40, 44: no batch is left; download returns payload.
NcbiReturn ==
    /\ ncbi_pc = "batches"
    /\ batches = <<>>
    /\ ncbi_returned' = TRUE
    /\ ncbi_pc' = "done"
    /\ UNCHANGED <<ids_list, seq_len, total_ids, start, id_bp_list, summarised, ids_aborted, id_repeated, batches,
                   attempt, outcomes, seq_result, failed_logged, batch_log, ncbi_payload,
                   ncbi_raised>>
    /\ UNCHANGED <<colVars, inatVars>>

\* NCBI.py lines 109-133: one pass of the retry loop of download_seq; when the
\* loop ends without a return, the code after it runs and the call returns None.
NcbiFetch ==
    /\ ncbi_pc = "fetch"
    /\ LoopContinues(attempt)
    /\ \E outcome \in FetchOutcomes :
        /\ outcomes' = Append(outcomes, outcome)
        /\ CASE outcome = "ok" ->
                  /\ seq_result' = Some(Head(batches))
                  /\ ncbi_pc' = "seq_return"
                  /\ UNCHANGED <<attempt, failed_logged>>
             [] outcome = "IncompleteRead" ->
                  /\ attempt' = attempt + 1
                  /\ seq_result' = None
                  /\ IF LoopContinues(attempt + 1)
                     THEN /\ ncbi_pc' = "fetch"
                          /\ UNCHANGED failed_logged
                     ELSE /\ ncbi_pc' = "seq_return"
                          /\ failed_logged' = (attempt + 1 = retries)
             [] outcome = "Exception" ->
                  /\ seq_result' = None
                  /\ ncbi_pc' = "seq_return"
                  /\ failed_logged' = (attempt = retries)
                  /\ UNCHANGED attempt
    /\ UNCHANGED <<ids_list, seq_len, total_ids, start, id_bp_list, summarised, ids_aborted, id_repeated, batches,
                   batch_log, ncbi_payload, ncbi_returned, ncbi_raised>>
    /\ UNCHANGED <<colVars, inatVars>>

\* NCBI.py lines 41-43: download iterates over what download_seq returned;
\* iterating over None raises TypeError.
NcbiConsume ==
    /\ ncbi_pc = "seq_return"
    /\ batch_log' = Append(batch_log, seq_result)
    /\ IF seq_result = None
       THEN /\ ncbi_raised' = TRUE
            /\ ncbi_pc' = "done"
            /\ UNCHANGED <<ncbi_payload, batches>>
       ELSE /\ ncbi_payload' = ncbi_payload \o Val(seq_result)
            /\ batches' = Tail(batches)
            /\ ncbi_pc' = "batches"
            /\ UNCHANGED ncbi_raised
    /\ UNCHANGED <<ids_list, seq_len, total_ids, start, id_bp_list, summarised, ids_aborted, id_repeated, attempt,
                   outcomes, seq_result, failed_logged, ncbi_returned>>
    /\ UNCHANGED <<colVars, inatVars>>

(***************************************************************************)
(* ------------------------- The specification --------------------------- *)
(***************************************************************************)

\* One run is one call of one downloader.
Init ==
    \/ ColInit /\ InatIdle /\ NcbiIdle
    \/ ColIdle /\ InatInit /\ NcbiIdle
    \/ ColIdle /\ InatIdle /\ NcbiInit

Next ==
    \/ ColRequest
    \/ ColAnswer
    \/ InatSearchUnreachable
    \/ InatSearchRefused
    \/ InatSearch
    \/ InatDetailUnreachable
    \/ InatDetailRefused
    \/ InatDetail
    \/ NcbiCount
    \/ NcbiCountFails
    \/ NcbiPage
    \/ NcbiPageFails
    \/ NcbiPagesDone
    \/ NcbiSplit
    \/ NcbiNextBatch
    \/ NcbiReturn
    \/ NcbiFetch
    \/ NcbiConsume

Spec == Init /\ [][Next]_vars

(***************************************************************************)
(* ----------------------------- Properties ------------------------------ *)
(***************************************************************************)

\* The candidates of the search response (empty before the response).
Candidates ==
    IF col_response = None THEN <<>>
    ELSE IF Val(col_response).json = None THEN <<>>
    ELSE Val(Val(col_response).json).result

\* _download returned a list.
ColReturned == col_pc = "done" /\ ~col_raised /\ col_payload # None

\* The operator was asked and typed the id of one of the candidates.
AnsweredListed ==
    /\ col_pc = "done"
    /\ col_prompts = 1
    /\ \E i \in 1..Len(Candidates) : Candidates[i].id = id_input

\* The candidate whose id the operator typed.
ChosenCandidate ==
    Candidates[CHOOSE i \in 1..Len(Candidates) : Candidates[i].id = id_input]

\* usage.status of a candidate, null without usage.
CandidateStatus(c) == IF c.usage = None THEN None ELSE Val(c.usage).status

\* The accepted-name filter is on and the candidate's status is not an accepted term.
Stripped(c) ==
    /\ check_syn
    /\ \/ CandidateStatus(c) = None
       \/ Val(CandidateStatus(c)) \notin {"accepted", "provisionally accepted"}

\* A lineage without the entries that carry the id of the candidate's usage.
WithoutOwnEntry(c) ==
    LET Other(e) == c.usage = None \/ Some(e.id) # Val(c.usage).id
    IN  SelectSeq(Val(c.classification), Other)

\* C1: for every search response with status 200 (zero, one or several
\* candidates) and every answer to the prompt, _download ends by returning a
\* list of exactly one record whose origin_taxon is the query.
C1_AlwaysOneRecord ==
    (col_pc = "done" /\ col_response # None /\ Val(col_response).status_code = 200)
    => /\ ~col_raised
       /\ col_payload # None
       /\ Len(Val(col_payload)) = 1
       /\ Val(col_payload)[1].origin_taxon = col_query

\* C2: the license_code of every returned PhotoRecord is null or on the
\* allow-list, on the default-photo path and on the fallback path.
C2_LicenseOnAllowList ==
    inat_payload # None
    => \A i \in 1..Len(Val(inat_payload)) :
          \/ Val(inat_payload)[i].license_code = None
          \/ Val(Val(inat_payload)[i].license_code) \in photo_license

\* C3: when the fetch of a batch failed, download still returns normally, and
\* the payload holds the records of every batch whose fetch succeeded, in
\* batch order.
C3_FailedBatchIsSkipped ==
    (ncbi_pc = "done" /\ \E i \in 1..Len(batch_log) : batch_log[i] = None)
    => /\ ncbi_returned
       /\ ~ncbi_raised
       /\ ncbi_payload = Flatten(SelectSeq(batch_log, LAMBDA r : r # None))

IncompleteReads(os) == Len(SelectSeq(os, LAMBDA o : o = "IncompleteRead"))

\* C4: download_seq never makes a fourth attempt; a success after k < 3
\* incomplete reads returns that fetch's records after exactly k + 1 attempts;
\* three incomplete reads return nothing and log the failure; the failure is
\* logged only after three attempts, all of them incomplete reads.
C4_RetryBound ==
    /\ Len(outcomes) <= 3
    /\ ncbi_pc = "seq_return"
       => /\ outcomes # <<>>
          /\ outcomes[Len(outcomes)] = "ok"
             => /\ seq_result = Some(Head(batches))
                /\ Len(outcomes) = IncompleteReads(outcomes) + 1
                /\ IncompleteReads(outcomes) < 3
          /\ outcomes = <<"IncompleteRead", "IncompleteRead", "IncompleteRead">>
             => seq_result = None /\ failed_logged
          /\ failed_logged
             => outcomes = <<"IncompleteRead", "IncompleteRead", "IncompleteRead">>
          /\ outcomes[Len(outcomes)] # "ok" => seq_result = None

\* C4 witness: two incomplete reads, then a successful third attempt.
C4_Witness ==
    /\ ncbi_pc = "seq_return"
    /\ outcomes = <<"IncompleteRead", "IncompleteRead", "ok">>
    /\ seq_result # None

\* C5: a query without provider match gives exactly one record, the query in
\* its identifying field and null everywhere else, after a single HTTP
\* request and without prompt, in the checklist and in the photo lookup.
C5_NoMatchNullRecord ==
    /\ (col_pc = "done" /\ col_response # None /\ Val(col_response).json # None
          /\ Val(Val(col_response).json).empty)
       => /\ ~col_raised
          /\ col_payload = Some(<<[origin_taxon |-> col_query, taxon_id |-> None,
                                   status |-> None, usage |-> None,
                                   classification |-> None]>>)
          /\ col_prompts = 0
          /\ col_requests = 1
    /\ (inat_status = Some(200)
          /\ \A i \in 1..Len(inat_results) : inat_results[i].name # inat_query)
       => /\ inat_pc = "done"
          /\ ~inat_raised
          /\ inat_payload = Some(<<[taxon |-> inat_query, image_id |-> None,
                                    license_code |-> None, attribution |-> None]>>)
          /\ inat_requests = 1

\* C5 witness: the photo search answered with taxa, none of them named as the query.
C5_Witness ==
    /\ inat_pc = "done"
    /\ inat_status = Some(200)
    /\ inat_results # <<>>
    /\ \A i \in 1..Len(inat_results) : inat_results[i].name # inat_query
    /\ inat_payload # None

C7_IdsFiltered ==
    /\ \A id \in id_bp_list : seq_len[id] <= 5000
    /\ ncbi_pc \in {"pages", "ids_return"} => id_bp_list \subseteq summarised
    /\ ncbi_pc \in {"batches", "fetch", "seq_return"}
       => /\ \A i, j \in 1..Len(ids_list) : ids_list[i] = ids_list[j] => i = j
          /\ {ids_list[i] : i \in 1..Len(ids_list)} = id_bp_list

\* C7 witness: download_ids returns after an exception, having met a repeated
\* id and an id that is too long, with something kept.
C7_Witness ==
    /\ ncbi_pc = "ids_return"
    /\ ids_aborted
    /\ id_repeated
    /\ id_bp_list # {}
    /\ \E id \in summarised : seq_len[id] > 5000

\* C8: a transport error of the fallback detail lookup (another status than
\* 2xx, or no connection) never reaches the caller, who gets the null record;
\* only a transport error of the primary search is raised.
C8_FallbackErrorGivesNullRecord ==
    /\ (inat_pc = "done" /\ inat_requests = 2 /\ detail_status # Some(200))
       => /\ ~inat_raised
          /\ inat_payload = Some(<<[taxon |-> inat_query, image_id |-> None,
                                    license_code |-> None, attribution |-> None]>>)
    /\ inat_raised => inat_requests = 1

\* The candidate the record is built from: the only one, the chosen one, or
\* the empty candidate of "Skip".
ResolvedCandidate ==
    IF col_prompts = 0 THEN Candidates[1]
    ELSE IF id_input = Some("Skip") THEN [id |-> None, usage |-> None, classification |-> None]
    ELSE ChosenCandidate

\* C9: the classification of the returned record is the resolved candidate's
\* with the accepted-name filter applied: with the filter on and a status that
\* is not an accepted term, exactly the entries with the usage's id are
\* removed and the others keep their order; otherwise it is unchanged.
C9_ClassificationFiltered ==
    (ColReturned /\ Candidates # <<>>)
    => LET rec == Val(col_payload)[1]
           c == ResolvedCandidate
       IN  rec.classification =
             IF Stripped(c) /\ c.classification # None
             THEN Some(WithoutOwnEntry(c))
             ELSE c.classification

\* C10: the operator is asked only when the response holds more than one
\* candidate; with exactly one candidate no prompt is issued at any point and
\* the record is built from that candidate.
C10_NoPromptForSingleCandidate ==
    /\ col_prompts > 0 => Len(Candidates) > 1
    /\ Len(Candidates) = 1
       => /\ col_prompts = 0
          /\ id_input = None
          /\ ColReturned
          /\ Len(Val(col_payload)) = 1
          /\ Val(col_payload)[1].origin_taxon = col_query
          /\ Val(col_payload)[1].taxon_id = Candidates[1].id
          /\ Val(col_payload)[1].usage = Candidates[1].usage
          /\ Val(col_payload)[1].status = CandidateStatus(Candidates[1])

\* C10 witness: a response with one candidate was turned into a record.
C10_Witness ==
    /\ col_pc = "done"
    /\ Len(Candidates) = 1
    /\ col_prompts = 0
    /\ ColReturned

====
